---- MODULE Spec2Model ----
(***************************************************************************)
(* Model of lasagne/layers/merge.py: ConcatLayer and ElemwiseSumLayer.     *)
(*                                                                         *)
(* Tensors are objects on a heap, so that Python's augmented assignments   *)
(* (input *= coeff, output += input) can act on the object they are        *)
(* applied to.  Whether they do depends on the tensor type the caller      *)
(* hands in: a numpy ndarray implements __imul__/__iadd__ in place, a      *)
(* Theano variable does not implement them and Python falls back to        *)
(* __mul__/__add__, which build a new object.  Both are modelled.          *)
(***************************************************************************)
EXTENDS Integers, Sequences, FiniteSets, TLC

\* ------------------------------------------------------------------ bounds
MaxInputs == 3      \* longest list of input layers / shapes / tensors
MaxDim == 2         \* largest size of one tensor dimension

\* --------------------------------------------------------- python helpers
Min(a, b) == IF a < b THEN a ELSE b

RECURSIVE SumSeq(_)
\* sum(sizes)
SumSeq(s) == IF s = <<>> THEN 0 ELSE s[1] + SumSeq(Tail(s))

\* seq[i] with Python's indexing: 0-based, negative indices count from the end
PyIndexOK(s, i) == i >= -Len(s) /\ i < Len(s)
PyPos(s, i) == IF i < 0 THEN Len(s) + i + 1 ELSE i + 1
PyGet(s, i) == s[PyPos(s, i)]
PySet(s, i, v) == [s EXCEPT ![PyPos(s, i)] = v]

\* [c] * n
Repeat(c, n) == [k \in 1..n |-> c]

\* ----------------------------------------------------------------- tensors
\* A tensor value is a matrix: a non-empty sequence of rows of equal length.
Rows(t) == Len(t)
Cols(t) == Len(t[1])
Shape(t) == <<Rows(t), Cols(t)>>
Scale(t, c) == [i \in 1..Rows(t) |-> [j \in 1..Cols(t) |-> t[i][j] * c]]
Add(a, b) == [i \in 1..Rows(a) |-> [j \in 1..Cols(a) |-> a[i][j] + b[i][j]]]

\* the tensor of shape <<r, c>> that object k holds before any call: every
\* position of every object holds a different value
Fill(k, r, c) == [i \in 1..r |-> [j \in 1..c |-> 100 * k + 10 * i + j]]

\* ------------------------------------------------------------ input domains
Dims == 1..MaxDim
\* upstream output shapes: vectors and matrices
VectorShapes == {<<r>> : r \in Dims}
MatrixShapes == {<<r, c>> : r \in Dims, c \in Dims}
\* axis arguments: every valid index of a matrix shape, and one too far each way
Axes == -3..2
\* coefficients: the one the loop skips the multiplication for, and another
Coeffs == {1, 2}
\* the tensor objects of the caller
TensorIds == {1, 2}

RECURSIVE SeqsUpTo(_, _)
\* all sequences over S of length at most n
SeqsUpTo(S, n) ==
  IF n = 0 THEN {<<>>}
  ELSE LET shorter == SeqsUpTo(S, n - 1)
       IN  shorter \cup {Append(q, x) : q \in {p \in shorter : Len(p) = n - 1}, x \in S}

LayerLists == {[k \in 1..n |-> k] : n \in 0..MaxInputs}
ShapeLists == SeqsUpTo(VectorShapes \cup MatrixShapes, MaxInputs)
CoeffLists == SeqsUpTo(Coeffs, MaxInputs)
InputLists == SeqsUpTo(TensorIds, MaxInputs)
\* the coeffs argument: a list, or a scalar
CoeffArgs ==
  {[isList |-> TRUE, list |-> l, scalar |-> 0] : l \in CoeffLists}
    \cup {[isList |-> FALSE, list |-> <<>>, scalar |-> c] : c \in Coeffs}

\* ------------------------------------------------------------------ layers
NoLayer == [kind |-> "none", input_layers |-> <<>>, axis |-> 0, coeffs |-> <<>>]

\* outcome of a constructor: the object, or the exception raised
Built(obj) == [self |-> obj, err |-> "none"]
NotBuilt(e) == [self |-> NoLayer, err |-> e]

\* outcome of a method call: the object and the argument as the call leaves
\* them, and the value returned or the exception raised
Returned(self, arg, v) ==
  [self |-> self, arg |-> arg, returned |-> TRUE, ret |-> v, err |-> "none"]
Raised(self, arg, e) ==
  [self |-> self, arg |-> arg, returned |-> FALSE, ret |-> <<>>, err |-> e]

\* ConcatLayer.__init__(self, input_layers, axis=1)
ConcatLayer_init(input_layers, axis) ==
  Built([kind |-> "concat", input_layers |-> input_layers, axis |-> axis,
         coeffs |-> <<>>])

\* mutants of ConcatLayer.get_output_shape_for.
\* the axis entry is never replaced by sum(sizes)
ConcatLayer_get_output_shape_for_NoSum(self, input_shapes) ==
  IF \E k \in 1..Len(input_shapes) : ~PyIndexOK(input_shapes[k], self.axis)
  THEN Raised(self, input_shapes, "IndexError")
  ELSE IF input_shapes = <<>>
  THEN Raised(self, input_shapes, "IndexError")
  ELSE Returned(self, input_shapes, input_shapes[1])

\* the copy is taken of the last shape, input_shapes[-1]
ConcatLayer_get_output_shape_for_LastShape(self, input_shapes) ==
  IF \E k \in 1..Len(input_shapes) : ~PyIndexOK(input_shapes[k], self.axis)
  THEN Raised(self, input_shapes, "IndexError")
  ELSE IF input_shapes = <<>>
  THEN Raised(self, input_shapes, "IndexError")
  ELSE LET sizes == [k \in 1..Len(input_shapes) |-> PyGet(input_shapes[k], self.axis)]
           output_shape == PySet(input_shapes[Len(input_shapes)], self.axis, SumSeq(sizes))
       IN  Returned(self, input_shapes, output_shape)

\* no copy is made: output_shape is input_shapes[0] itself
ConcatLayer_get_output_shape_for_NoCopy(self, input_shapes) ==
  IF \E k \in 1..Len(input_shapes) : ~PyIndexOK(input_shapes[k], self.axis)
  THEN Raised(self, input_shapes, "IndexError")
  ELSE IF input_shapes = <<>>
  THEN Raised(self, input_shapes, "IndexError")
  ELSE LET sizes == [k \in 1..Len(input_shapes) |-> PyGet(input_shapes[k], self.axis)]
           output_shape == PySet(input_shapes[1], self.axis, SumSeq(sizes))
       IN  Returned(self, [input_shapes EXCEPT ![1] = output_shape], output_shape)

\* ConcatLayer.get_output_shape_for(self, input_shapes)
ConcatLayer_get_output_shape_for(self, input_shapes) ==
  IF \E k \in 1..Len(input_shapes) : ~PyIndexOK(input_shapes[k], self.axis)
  THEN Raised(self, input_shapes, "IndexError")      \* input_shape[self.axis]
  ELSE IF input_shapes = <<>>
  THEN Raised(self, input_shapes, "IndexError")      \* input_shapes[0]
  ELSE LET sizes == [k \in 1..Len(input_shapes) |-> PyGet(input_shapes[k], self.axis)]
           output_shape == PySet(input_shapes[1], self.axis, SumSeq(sizes))
       IN  Returned(self, input_shapes, output_shape)

\* mutants of ElemwiseSumLayer.__init__.
\* only a list that is too long is refused: len(coeffs) > len(input_layers)
ElemwiseSumLayer_init_OnlyLonger(input_layers, coeffs) ==
  IF coeffs.isList
  THEN IF Len(coeffs.list) > Len(input_layers)
       THEN NotBuilt("ValueError")
       ELSE Built([kind |-> "sum", input_layers |-> input_layers, axis |-> 0,
                   coeffs |-> coeffs.list])
  ELSE Built([kind |-> "sum", input_layers |-> input_layers, axis |-> 0,
              coeffs |-> Repeat(coeffs.scalar, Len(input_layers))])

\* a scalar is wrapped in a list but not repeated: coeffs = [coeffs]
ElemwiseSumLayer_init_NoBroadcast(input_layers, coeffs) ==
  IF coeffs.isList
  THEN IF Len(coeffs.list) # Len(input_layers)
       THEN NotBuilt("ValueError")
       ELSE Built([kind |-> "sum", input_layers |-> input_layers, axis |-> 0,
                   coeffs |-> coeffs.list])
  ELSE Built([kind |-> "sum", input_layers |-> input_layers, axis |-> 0,
              coeffs |-> <<coeffs.scalar>>])

\* ElemwiseSumLayer.__init__(self, input_layers, coeffs=1)
ElemwiseSumLayer_init(input_layers, coeffs) ==
  IF coeffs.isList
  THEN IF Len(coeffs.list) # Len(input_layers)
       THEN NotBuilt("ValueError")
       ELSE Built([kind |-> "sum", input_layers |-> input_layers, axis |-> 0,
                   coeffs |-> coeffs.list])
  ELSE Built([kind |-> "sum", input_layers |-> input_layers, axis |-> 0,
              coeffs |-> Repeat(coeffs.scalar, Len(input_layers))])

\* mutant of ElemwiseSumLayer.get_output_shape_for: only the last shape is
\* compared with the first
ElemwiseSumLayer_get_output_shape_for_LastOnly(self, input_shapes) ==
  IF input_shapes = <<>>
  THEN Raised(self, input_shapes, "IndexError")
  ELSE IF input_shapes[Len(input_shapes)] # input_shapes[1]
  THEN Raised(self, input_shapes, "ValueError")
  ELSE Returned(self, input_shapes, input_shapes[1])

\* ElemwiseSumLayer.get_output_shape_for(self, input_shapes)
ElemwiseSumLayer_get_output_shape_for(self, input_shapes) ==
  IF \E k \in 1..Len(input_shapes) : input_shapes[k] # input_shapes[1]
  THEN Raised(self, input_shapes, "ValueError")
  ELSE IF input_shapes = <<>>
  THEN Raised(self, input_shapes, "IndexError")      \* input_shapes[0]
  ELSE Returned(self, input_shapes, input_shapes[1])

\* ------------------------------------------------------------ tensor heap
\* objs[k] is the value tensor object k holds; the objects after the caller's
\* are the ones a call allocates.  inplace tells whether the tensor type
\* implements the augmented assignments in place (numpy.ndarray) or not
\* (theano variables: x *= c rebinds x to the new object x * c).

\* input *= coeff : the heap after it, and the object `input` is then bound to
IMul(inplace, objs, x, c) ==
  IF inplace
  THEN [objs |-> [objs EXCEPT ![x] = Scale(objs[x], c)], ref |-> x]
  ELSE [objs |-> Append(objs, Scale(objs[x], c)), ref |-> Len(objs) + 1]

\* output += input : the heap after it, and the object `output` is then bound to
IAdd(inplace, objs, x, y) ==
  IF inplace
  THEN [objs |-> [objs EXCEPT ![x] = Add(objs[x], objs[y])], ref |-> x]
  ELSE [objs |-> Append(objs, Add(objs[x], objs[y])), ref |-> Len(objs) + 1]

\* outcome of get_output_for: the layer and the heap as the call leaves them,
\* the object returned (ref = 0: None) and the value it holds
Output(self, objs, ref) ==
  [self |-> self, objs |-> objs, returned |-> TRUE, ref |-> ref,
   ret |-> IF ref = 0 THEN <<>> ELSE objs[ref], err |-> "none"]
NoOutput(self, objs, e) ==
  [self |-> self, objs |-> objs, returned |-> FALSE, ref |-> 0, ret |-> <<>>, err |-> e]

\* one pass of the loop body of ElemwiseSumLayer.get_output_for
SumStep(inplace, st, coeff, input) ==
  LET m == IF coeff # 1 THEN IMul(inplace, st.objs, input, coeff)
           ELSE [objs |-> st.objs, ref |-> input]
  IN  IF st.output # 0
      THEN LET a == IAdd(inplace, m.objs, st.output, m.ref)
           IN  [objs |-> a.objs, output |-> a.ref]
      ELSE [objs |-> m.objs, output |-> m.ref]

RECURSIVE SumLoop(_, _, _, _, _)
\* for coeff, input in zip(self.coeffs, inputs): from pair k on
SumLoop(inplace, coeffs, inputs, k, st) ==
  IF k > Min(Len(coeffs), Len(inputs)) THEN st
  ELSE SumLoop(inplace, coeffs, inputs, k + 1,
               SumStep(inplace, st, coeffs[k], inputs[k]))

\* ElemwiseSumLayer.get_output_for(self, inputs)
ElemwiseSumLayer_get_output_for(self, heap, inputs) ==
  LET st == SumLoop(heap.inplace, self.coeffs, inputs, 1,
                    [objs |-> heap.objs, output |-> 0])
  IN  Output(self, st.objs, st.output)

\* ---------------------------------------------------------- concatenation
RECURSIVE JoinAll(_)
\* the sequences of a list joined end to end, in list order
JoinAll(ss) == IF ss = <<>> THEN <<>> ELSE ss[1] \o JoinAll(Tail(ss))

\* utils.concatenate(tensor_list, axis): the tensors joined along axis
concatenate(tensor_list, axis) ==
  IF tensor_list = <<>> \/ ~PyIndexOK(<<0, 0>>, axis)
  THEN [ok |-> FALSE, value |-> <<>>]
  ELSE LET ax == PyPos(<<0, 0>>, axis)
           other == IF ax = 1 THEN 2 ELSE 1
       IN  IF \E k \in 1..Len(tensor_list) :
                 Shape(tensor_list[k])[other] # Shape(tensor_list[1])[other]
           THEN [ok |-> FALSE, value |-> <<>>]
           ELSE [ok |-> TRUE,
                 value |->
                   IF ax = 1 THEN JoinAll(tensor_list)
                   ELSE [i \in 1..Rows(tensor_list[1]) |->
                           JoinAll([k \in 1..Len(tensor_list) |-> tensor_list[k][i]])]]

\* mutant of ConcatLayer.get_output_for: self.axis is not passed on, and the
\* tensors are joined along the first axis
ConcatLayer_get_output_for_FirstAxis(self, heap, inputs) ==
  LET r == concatenate([k \in 1..Len(inputs) |-> heap.objs[inputs[k]]], 0)
  IN  IF r.ok
      THEN Output(self, Append(heap.objs, r.value), Len(heap.objs) + 1)
      ELSE NoOutput(self, heap.objs, "BackendError")

\* ConcatLayer.get_output_for(self, inputs)
ConcatLayer_get_output_for(self, heap, inputs) ==
  LET r == concatenate([k \in 1..Len(inputs) |-> heap.objs[inputs[k]]], self.axis)
  IN  IF r.ok
      THEN Output(self, Append(heap.objs, r.value), Len(heap.objs) + 1)
      ELSE NoOutput(self, heap.objs, "BackendError")

\* ------------------------------------------------------------------- state
VARIABLES
  layer,    \* the layer object: NoLayer until a constructor returns one
  ctor,     \* the last constructor call: its arguments and its outcome
  heap,     \* the upstream output tensors, once they have been computed
  inputs,   \* the `inputs` list handed to get_output_for: references into heap
  call,     \* the last method call: its arguments and its outcome
  ncalls    \* number of get_output_for calls made

vars == <<layer, ctor, heap, inputs, call, ncalls>>

\* how often get_output_for is called on the same inputs
MaxCalls == 2

NoHeap == [inplace |-> FALSE, objs |-> <<>>]
NoCtor ==
  [kind |-> "none", input_layers |-> <<>>, axis |-> 0,
   coeffs |-> [isList |-> FALSE, list |-> <<>>, scalar |-> 0], err |-> "none"]
NoCall ==
  [op |-> "none", input_shapes |-> <<>>, input_shapes_after |-> <<>>,
   inputs |-> <<>>, objs_before |-> <<>>, objs_after |-> <<>>,
   returned |-> FALSE, ret |-> <<>>, ref |-> 0, err |-> "none"]

\* the first position of list i that refers to object id
FirstPos(i, id) ==
  CHOOSE k \in 1..Len(i) : i[k] = id /\ \A j \in 1..(k - 1) : i[j] # id

\* list i can hold tensors of the shapes S: one object has one shape
Consistent(i, S) ==
  /\ Len(i) = Len(S)
  /\ \A k \in 1..Len(S) : Len(S[k]) = 2
  /\ \A j, k \in 1..Len(i) : i[j] = i[k] => S[j] = S[k]

\* the upstream outputs before any call: object id holds Fill(id, r, c), of
\* the shape S gives the positions of list i that refer to it
UpstreamOutputs(b, i, S) ==
  [inplace |-> b,
   objs |-> [id \in TensorIds |->
               IF \E k \in 1..Len(i) : i[k] = id
               THEN Fill(id, S[FirstPos(i, id)][1], S[FirstPos(i, id)][2])
               ELSE Fill(id, 1, 1)]]

OwnObjs(objs, n) == SubSeq(objs, 1, n)

Init ==
  /\ layer = NoLayer
  /\ ctor = NoCtor
  /\ heap = NoHeap
  /\ inputs = <<>>
  /\ call = NoCall
  /\ ncalls = 0

\* ConcatLayer(input_layers, axis)
ConstructConcat ==
  /\ layer.kind = "none"
  /\ \E input_layers \in LayerLists, axis \in Axes :
       LET r == ConcatLayer_init(input_layers, axis)
       IN  /\ layer' = r.self
           /\ ctor' = [NoCtor EXCEPT !.kind = "concat", !.input_layers = input_layers,
                                     !.axis = axis, !.err = r.err]
  /\ UNCHANGED <<heap, inputs, call, ncalls>>

\* ElemwiseSumLayer(input_layers, coeffs)
ConstructSum ==
  /\ layer.kind = "none"
  /\ \E input_layers \in LayerLists, coeffs \in CoeffArgs :
       LET r == ElemwiseSumLayer_init(input_layers, coeffs)
       IN  /\ layer' = r.self
           /\ ctor' = [NoCtor EXCEPT !.kind = "sum", !.input_layers = input_layers,
                                     !.coeffs = coeffs, !.err = r.err]
  /\ UNCHANGED <<heap, inputs, call, ncalls>>

ShapesOf(objs, refs) == [k \in 1..Len(refs) |-> Shape(objs[refs[k]])]

\* the shape lists get_output_shape_for is called with: the output shapes of
\* the upstream layers, one per input layer.  They are fixed by the graph:
\* any list at the first call, the same list afterwards
ShapeArgs ==
  IF heap.objs # <<>> THEN {ShapesOf(heap.objs, inputs)}
  ELSE IF call.op # "none" THEN {call.input_shapes}
  ELSE {l \in ShapeLists : Len(l) = Len(layer.input_layers)}

\* the shape lists the tensors of list i can have: the graph's, when shape
\* inference has been given them, and else any matrix shape per object
GraphShapes(i) ==
  IF call.op # "none" THEN {S \in {call.input_shapes} : Consistent(i, S)}
  ELSE {[k \in 1..Len(i) |-> f[i[k]]] : f \in [TensorIds -> MatrixShapes]}

\* shapes a layer's inputs can have: matrices, and for an ElemwiseSumLayer,
\* which requires it of its input layers, all of one shape
Admissible(S) ==
  /\ \A k \in 1..Len(S) : Len(S[k]) = 2
  /\ layer.kind = "sum" => \A k \in 1..Len(S) : S[k] = S[1]

\* The graph executor computes the outputs of the upstream layers and builds
\* the `inputs` list: one tensor per input layer, of the shapes the graph
\* fixes, the same object wherever the same upstream layer is listed twice.
ComputeInputs ==
  /\ layer.kind # "none"
  /\ heap.objs = <<>>
  /\ call.op # "none" => Admissible(call.input_shapes)
  /\ \E i \in {l \in InputLists : Len(l) = Len(layer.input_layers)} :
       \E S \in GraphShapes(i) :
         /\ Admissible(S)
         /\ \E b \in BOOLEAN : heap' = UpstreamOutputs(b, i, S)
         /\ inputs' = i
  /\ UNCHANGED <<layer, ctor, call, ncalls>>

ShapeCallRecord(op, input_shapes, r) ==
  [NoCall EXCEPT !.op = op, !.input_shapes = input_shapes,
                 !.input_shapes_after = r.arg, !.returned = r.returned,
                 !.ret = r.ret, !.err = r.err]

\* layer.get_output_shape_for(input_shapes) on a ConcatLayer
ConcatShapeCall ==
  /\ layer.kind = "concat"
  /\ \E input_shapes \in ShapeArgs :
       LET r == ConcatLayer_get_output_shape_for(layer, input_shapes)
       IN  /\ layer' = r.self
           /\ call' = ShapeCallRecord("concat_shape", input_shapes, r)
  /\ UNCHANGED <<ctor, heap, inputs, ncalls>>

\* layer.get_output_shape_for(input_shapes) on an ElemwiseSumLayer
SumShapeCall ==
  /\ layer.kind = "sum"
  /\ \E input_shapes \in ShapeArgs :
       LET r == ElemwiseSumLayer_get_output_shape_for(layer, input_shapes)
       IN  /\ layer' = r.self
           /\ call' = ShapeCallRecord("sum_shape", input_shapes, r)
  /\ UNCHANGED <<ctor, heap, inputs, ncalls>>

OutputCallRecord(op, r) ==
  [NoCall EXCEPT !.op = op, !.inputs = inputs, !.objs_before = heap.objs,
                 !.objs_after = OwnObjs(r.objs, Len(heap.objs)),
                 !.returned = r.returned, !.ret = r.ret,
                 !.ref = IF r.ref <= Len(heap.objs) THEN r.ref ELSE 0,
                 !.err = r.err]

\* layer.get_output_for(inputs) on a ConcatLayer
ConcatOutputCall ==
  /\ layer.kind = "concat"
  /\ heap.objs # <<>>
  /\ ncalls < MaxCalls
  /\ LET r == ConcatLayer_get_output_for(layer, heap, inputs)
     IN  /\ layer' = r.self
         /\ heap' = [heap EXCEPT !.objs = OwnObjs(r.objs, Len(heap.objs))]
         /\ call' = OutputCallRecord("concat_output", r)
  /\ ncalls' = ncalls + 1
  /\ UNCHANGED <<ctor, inputs>>

\* layer.get_output_for(inputs) on an ElemwiseSumLayer
SumOutputCall ==
  /\ layer.kind = "sum"
  /\ heap.objs # <<>>
  /\ ncalls < MaxCalls
  /\ LET r == ElemwiseSumLayer_get_output_for(layer, heap, inputs)
     IN  /\ layer' = r.self
         /\ heap' = [heap EXCEPT !.objs = OwnObjs(r.objs, Len(heap.objs))]
         /\ call' = OutputCallRecord("sum_output", r)
  /\ ncalls' = ncalls + 1
  /\ UNCHANGED <<ctor, inputs>>

Next ==
  \/ ConstructConcat
  \/ ConstructSum
  \/ ConcatShapeCall
  \/ SumShapeCall
  \/ ComputeInputs
  \/ ConcatOutputCall
  \/ SumOutputCall

Spec == Init /\ [][Next]_vars

\* ------------------------------------------------------- claim vocabulary
IsShapeCall == call.op \in {"concat_shape", "sum_shape"}
IsOutputCall == call.op \in {"concat_output", "sum_output"}

\* the position of the axis in a shape of the rank of sh
AxisPos(sh) == PyPos(sh, layer.axis)

\* shapes S have one rank, the axis is an index of it, and they agree on
\* every dimension but the axis
SameRank(S) == \A k \in 1..Len(S) : Len(S[k]) = Len(S[1])
AgreeOffAxis(S) ==
  \A k \in 1..Len(S) : \A d \in 1..Len(S[1]) :
    d # AxisPos(S[1]) => S[k][d] = S[1][d]

RECURSIVE AxisTotal(_, _, _)
\* the sizes of the first k shapes of S at position d, added up
AxisTotal(S, d, k) == IF k = 0 THEN 0 ELSE AxisTotal(S, d, k - 1) + S[k][d]

\* shape `out` is shape S[1] but for the axis entry, which is the sum of all
\* the axis entries
IsConcatShape(out, S) ==
  /\ Len(out) = Len(S[1])
  /\ \A d \in 1..Len(S[1]) :
       out[d] = IF d = AxisPos(S[1]) THEN AxisTotal(S, d, Len(S)) ELSE S[1][d]

\* C1: for a valid axis and a non-empty list of shapes that agree on every
\* dimension but the axis, ConcatLayer.get_output_shape_for returns a shape of
\* the rank of the first, with the axis entry the sum of all axis entries and
\* every other entry the first shape's.
C1_ConcatShapeAgreeing ==
  (/\ call.op = "concat_shape"
   /\ call.input_shapes # <<>>
   /\ SameRank(call.input_shapes)
   /\ PyIndexOK(call.input_shapes[1], layer.axis)
   /\ AgreeOffAxis(call.input_shapes))
  => /\ call.returned
     /\ call.err = "none"
     /\ IsConcatShape(call.ret, call.input_shapes)

\* C1 witness: a returned concat shape for two or more agreeing shapes whose
\* axis sizes differ, with a negative axis.
C1_Witness ==
  /\ call.op = "concat_shape"
  /\ Len(call.input_shapes) >= 2
  /\ SameRank(call.input_shapes)
  /\ layer.axis = -1
  /\ PyIndexOK(call.input_shapes[1], layer.axis)
  /\ AgreeOffAxis(call.input_shapes)
  /\ call.input_shapes[1] # call.input_shapes[2]
  /\ call.returned

\* C9: ConcatLayer.get_output_shape_for does not validate the other
\* dimensions: for shapes of one rank that differ off the axis it raises
\* nothing and returns the first shape with the axis entry replaced by the sum.
C9_ConcatShapeUnvalidated ==
  (/\ call.op = "concat_shape"
   /\ call.input_shapes # <<>>
   /\ SameRank(call.input_shapes)
   /\ PyIndexOK(call.input_shapes[1], layer.axis)
   /\ ~AgreeOffAxis(call.input_shapes))
  => /\ call.returned
     /\ call.err = "none"
     /\ IsConcatShape(call.ret, call.input_shapes)

\* C9 witness: a shape returned for matrices that differ off the axis.
C9_Witness ==
  /\ call.op = "concat_shape"
  /\ call.input_shapes # <<>>
  /\ SameRank(call.input_shapes)
  /\ Len(call.input_shapes[1]) = 2
  /\ PyIndexOK(call.input_shapes[1], layer.axis)
  /\ ~AgreeOffAxis(call.input_shapes)
  /\ call.returned

AllEqual(S) == \A j, k \in 1..Len(S) : S[j] = S[k]

\* what a call decides: whether it returned, what, and what it raised
Verdict(r) == <<r.returned, r.ret, r.err>>

\* C2: for a non-empty list of shapes ElemwiseSumLayer.get_output_shape_for
\* returns the common shape when all are equal and raises the mismatch error,
\* returning nothing, otherwise; the layer's coefficients play no part.
C2_SumShape ==
  (call.op = "sum_shape" /\ call.input_shapes # <<>>)
  => /\ AllEqual(call.input_shapes)
          => call.returned /\ call.ret = call.input_shapes[1] /\ call.err = "none"
     /\ ~AllEqual(call.input_shapes)
          => ~call.returned /\ call.ret = <<>> /\ call.err = "ValueError"
     /\ \A c \in CoeffLists :
          Verdict(ElemwiseSumLayer_get_output_shape_for(
                    [layer EXCEPT !.coeffs = c], call.input_shapes))
            = Verdict(call)

\* C2 witness: the mismatch error for three shapes of which only the middle
\* one differs, on a layer with a coefficient other than 1.
C2_Witness ==
  /\ call.op = "sum_shape"
  /\ Len(call.input_shapes) = 3
  /\ call.input_shapes[1] = call.input_shapes[3]
  /\ call.input_shapes[1] # call.input_shapes[2]
  /\ \E k \in 1..Len(layer.coeffs) : layer.coeffs[k] # 1
  /\ call.err = "ValueError"

\* C3: ElemwiseSumLayer(input_layers, coeffs) raises the size-mismatch error
\* and yields no layer when coeffs is a list of another length than
\* input_layers; with a list of that length or a scalar it succeeds.
C3_SumConstruct ==
  ctor.kind = "sum"
  => IF ctor.coeffs.isList /\ Len(ctor.coeffs.list) # Len(ctor.input_layers)
     THEN ctor.err = "ValueError" /\ layer.kind = "none"
     ELSE ctor.err = "none" /\ layer.kind = "sum"

\* C3 witness: a coefficient list shorter than the layer list was refused.
C3_Witness ==
  /\ ctor.kind = "sum"
  /\ ctor.coeffs.isList
  /\ ctor.coeffs.list # <<>>
  /\ Len(ctor.coeffs.list) < Len(ctor.input_layers)
  /\ ctor.err = "ValueError"

\* C7: a constructed ElemwiseSumLayer holds one coefficient per input layer:
\* the list it was given, in order, or the scalar it was given at every index.
C7_SumCoeffs ==
  (layer.kind = "sum" /\ call.op = "none")
  => /\ Len(layer.coeffs) = Len(layer.input_layers)
     /\ layer.input_layers = ctor.input_layers
     /\ ctor.coeffs.isList => layer.coeffs = ctor.coeffs.list
     /\ ~ctor.coeffs.isList
          => \A k \in 1..Len(ctor.input_layers) : layer.coeffs[k] = ctor.coeffs.scalar

\* C7 witness: a layer built over three input layers from the scalar 2.
C7_Witness ==
  /\ layer.kind = "sum"
  /\ call.op = "none"
  /\ ~ctor.coeffs.isList
  /\ ctor.coeffs.scalar = 2
  /\ Len(layer.input_layers) = 3

\* the values the objects of list refs hold on heap objs
ValuesOf(objs, refs) == [k \in 1..Len(refs) |-> objs[refs[k]]]

RECURSIVE WeightedSum(_, _, _)
\* coeffs[1] * ts[1] + ... + coeffs[k] * ts[k], accumulated in list order
WeightedSum(coeffs, ts, k) ==
  IF k = 1 THEN Scale(ts[1], coeffs[1])
  ELSE Add(WeightedSum(coeffs, ts, k - 1), Scale(ts[k], coeffs[k]))

\* C4: ElemwiseSumLayer.get_output_for returns, for one tensor per
\* coefficient, the tensor sum_i coeff_i * input_i of the values the inputs
\* held when it was called, also when one object is listed more than once.
C4_SumOutput ==
  (/\ call.op = "sum_output"
   /\ call.inputs # <<>>
   /\ Len(call.inputs) = Len(layer.coeffs))
  => /\ call.returned
     /\ call.ret = WeightedSum(layer.coeffs, ValuesOf(call.objs_before, call.inputs),
                               Len(call.inputs))

RECURSIVE Offset(_, _, _)
\* the sizes of the tensors before the k-th along position d, added up
Offset(ts, d, k) == IF k = 1 THEN 0 ELSE Offset(ts, d, k - 1) + Shape(ts[k - 1])[d]

\* tensor out holds the tensors ts one after the other along position d of
\* the shape: each element of each input at its place behind the inputs
\* before it, and nothing else
IsConcatenation(out, ts, d) ==
  /\ Shape(out)[d] = Offset(ts, d, Len(ts) + 1)
  /\ \A k \in 1..Len(ts) : \A i \in 1..Rows(ts[k]) : \A j \in 1..Cols(ts[k]) :
       IF d = 1 THEN out[Offset(ts, 1, k) + i][j] = ts[k][i][j]
       ELSE out[i][Offset(ts, 2, k) + j] = ts[k][i][j]

\* C5: ConcatLayer.get_output_for returns its inputs joined along the axis in
\* list order, of the shape get_output_shape_for gives for their shapes.
C5_ConcatOutput ==
  (/\ call.op = "concat_output"
   /\ call.inputs # <<>>
   /\ PyIndexOK(<<0, 0>>, layer.axis)
   /\ AgreeOffAxis(ShapesOf(call.objs_before, call.inputs)))
  => /\ call.returned
     /\ IsConcatenation(call.ret, ValuesOf(call.objs_before, call.inputs),
                        AxisPos(<<0, 0>>))
     /\ Shape(call.ret)
          = ConcatLayer_get_output_shape_for(
              layer, ShapesOf(call.objs_before, call.inputs)).ret

\* C5 witness: two different tensors, of different sizes along the second
\* axis, were joined along it.
C5_Witness ==
  /\ call.op = "concat_output"
  /\ Len(call.inputs) >= 2
  /\ call.inputs[1] # call.inputs[2]
  /\ layer.axis = 1
  /\ Cols(call.objs_before[1]) # Cols(call.objs_before[2])
  /\ Rows(call.objs_before[1]) = 2
  /\ call.returned

\* the call get_output_for(inputs) made again in the current state
Again ==
  IF call.op = "sum_output" THEN ElemwiseSumLayer_get_output_for(layer, heap, inputs)
  ELSE ConcatLayer_get_output_for(layer, heap, inputs)

\* C6: get_output_for of either layer leaves every tensor of its inputs
\* holding the value it held before the call, so that the same call made
\* again returns the same result.
C6_OutputPure ==
  IsOutputCall
  => /\ call.objs_after = call.objs_before
     /\ Again.ret = call.ret

\* the loop of get_output_for with the multiplication done for every
\* coefficient, 1 included
SumStepAlways(inplace, st, coeff, input) ==
  LET m == IMul(inplace, st.objs, input, coeff)
  IN  IF st.output # 0
      THEN LET a == IAdd(inplace, m.objs, st.output, m.ref)
           IN  [objs |-> a.objs, output |-> a.ref]
      ELSE [objs |-> m.objs, output |-> m.ref]

RECURSIVE SumLoopAlways(_, _, _, _, _)
SumLoopAlways(inplace, coeffs, refs, k, st) ==
  IF k > Min(Len(coeffs), Len(refs)) THEN st
  ELSE SumLoopAlways(inplace, coeffs, refs, k + 1,
                     SumStepAlways(inplace, st, coeffs[k], refs[k]))

\* what the call recorded in `call` returns and leaves behind when it
\* multiplies unconditionally
Unskipped ==
  LET st == SumLoopAlways(heap.inplace, layer.coeffs, call.inputs, 1,
                          [objs |-> call.objs_before, output |-> 0])
  IN  [ret |-> IF st.output = 0 THEN <<>> ELSE st.objs[st.output],
       objs |-> OwnObjs(st.objs, Len(call.objs_before))]

\* skipping the multiplication by 1 changes neither the result nor the inputs
SkipUnobservable ==
  call.op = "sum_output"
  => call.ret = Unskipped.ret /\ call.objs_after = Unskipped.objs

\* C8: skipping the multiplication for coefficients equal to 1 is not
\* observable, and with the scalar coefficient 1 the output is the unweighted
\* elementwise sum of the inputs.
C8_SkipAndPlainSum ==
  call.op = "sum_output"
  => /\ call.ret = Unskipped.ret
     /\ (/\ call.inputs # <<>>
         /\ ~ctor.coeffs.isList
         /\ ctor.coeffs.scalar = 1)
        => call.ret = WeightedSum([k \in 1..Len(call.inputs) |-> 1],
                                  ValuesOf(call.objs_before, call.inputs),
                                  Len(call.inputs))

\* the coefficient list the constructor arguments stand for
Resolved(c, n) == IF c.isList THEN c.list ELSE [k \in 1..n |-> c.scalar]

\* C10: whatever calls were made, raising or not, the layer holds the axis
\* and the coefficients it was constructed with, and the shape list handed to
\* get_output_shape_for is as it was.
C10_Immutable ==
  call.op # "none"
  => /\ layer.input_layers = ctor.input_layers
     /\ layer.kind = "concat" => layer.axis = ctor.axis
     /\ layer.kind = "sum"
          => layer.coeffs = Resolved(ctor.coeffs, Len(ctor.input_layers))
     /\ IsShapeCall => call.input_shapes_after = call.input_shapes

\* C10 witness: after get_output_for calls, a ConcatLayer computed a shape
\* that differs from the first input shape.
C10_Witness ==
  /\ ncalls = MaxCalls
  /\ call.op = "concat_shape"
  /\ call.returned
  /\ call.ret # call.input_shapes[1]
  /\ call.input_shapes_after = call.input_shapes

====
